---- MODULE Spec2Model ----
(***************************************************************************)
(* A model of the todo application of src/ffww/todo_app.py: the TodoApp    *)
(* task store (the in-memory list self.tasks and the JSON backing file)    *)
(* and the command loop main().                                            *)
(*                                                                         *)
(* A Python str is a sequence of characters, each a one-character string   *)
(* (the non-ASCII character e-acute is the atom "U+00E9").  A Python value *)
(* as json.load can return it is a record tagged by its type in field t.   *)
(* The JSON grammar modelled is the one json.dump and json.load implement  *)
(* for null, booleans, integers, strings, arrays and objects; fractions,   *)
(* exponents, NaN/Infinity and surrogate pairs are outside the model, and  *)
(* no file drawn in Init uses them.                                        *)
(***************************************************************************)
EXTENDS Integers, Sequences, FiniteSets, TLC

(***************************************************************************)
(* Bounds of the model.                                                    *)
(***************************************************************************)
\* add_task is not called on a list that already holds MaxTasks tasks.
MaxTasks == 3
\* mark_complete and delete_task are called with ids 1..MaxId.
MaxId == 3
\* The `a` command is not typed while the list holds MaxTyped tasks.
MaxTyped == 2
\* The longest list whose save is followed to every point it can stop at.
MaxKilled == 1
\* The most characters of the text that reach the file in a save that fails.
MaxWritten == 2
\* The longest list a store grows to while two stores share the file.
MaxShared == 1

(***************************************************************************)
(* Python values.                                                          *)
(***************************************************************************)
PyNone == [t |-> "none"]
PyBool(b) == [t |-> "bool", v |-> b]
PyInt(n) == [t |-> "int", v |-> n]
PyStr(s) == [t |-> "str", v |-> s]
PyList(s) == [t |-> "list", v |-> s]
\* A dict is the sequence of its <<key, value>> pairs in insertion order
\* (keys are character sequences: json.load only builds str keys).
PyDict(kv) == [t |-> "dict", v |-> kv]

KeyId == <<"i", "d">>
KeyDescription == <<"d", "e", "s", "c", "r", "i", "p", "t", "i", "o", "n">>
KeyCompleted == <<"c", "o", "m", "p", "l", "e", "t", "e", "d">>

\* key in d
DictHas(d, k) == \E i \in 1..Len(d.v) : d.v[i][1] = k
\* d[key], for a key that is in d
DictGet(d, k) == d.v[CHOOSE i \in 1..Len(d.v) : d.v[i][1] = k][2]
\* d[key] = val: a present key keeps its place, a new key goes last
DictSet(d, k, val) ==
    IF DictHas(d, k)
    THEN PyDict([i \in 1..Len(d.v) |->
                    IF d.v[i][1] = k THEN <<k, val>> ELSE d.v[i]])
    ELSE PyDict(Append(d.v, <<k, val>>))

\* The dict literal of add_task.
TaskDict(id, description, completed) ==
    PyDict(<< <<KeyId, PyInt(id)>>,
              <<KeyDescription, PyStr(description)>>,
              <<KeyCompleted, PyBool(completed)>> >>)

\* bool(v): the truth value Python's `not v` and `if v` test.
PyTruthy(v) ==
    IF v.t = "bool" THEN v.v
    ELSE IF v.t = "int" THEN v.v # 0
    ELSE IF v.t = "none" THEN FALSE
    ELSE Len(v.v) > 0

\* The number a bool or int compares as (True == 1, False == 0).
PyNum(v) == IF v.t = "bool" THEN (IF v.v THEN 1 ELSE 0) ELSE v.v
IsNum(v) == v.t \in {"bool", "int"}

\* a == b in Python: numbers by value, dicts by key set and values whatever
\* the insertion order, lists element by element.
RECURSIVE PyEq(_, _)
PyEq(a, b) ==
    IF IsNum(a) /\ IsNum(b) THEN PyNum(a) = PyNum(b)
    ELSE IF a.t # b.t THEN FALSE
    ELSE IF a.t = "none" THEN TRUE
    ELSE IF a.t = "str" THEN a.v = b.v
    ELSE IF a.t = "list"
    THEN /\ Len(a.v) = Len(b.v)
         /\ \A i \in 1..Len(a.v) : PyEq(a.v[i], b.v[i])
    ELSE /\ Len(a.v) = Len(b.v)
         /\ \A i \in 1..Len(a.v) :
               /\ DictHas(b, a.v[i][1])
               /\ PyEq(a.v[i][2], DictGet(b, a.v[i][1]))

(***************************************************************************)
(* json.dump: the text the encoder writes for a value, with the default    *)
(* separators ", " and ": " and ensure_ascii = True.                       *)
(***************************************************************************)
Digits == <<"0", "1", "2", "3", "4", "5", "6", "7", "8", "9">>
DigitSet == {Digits[i] : i \in 1..10}
DigitValue(c) == (CHOOSE i \in 1..10 : Digits[i] = c) - 1

RECURSIVE NatChars(_)
NatChars(n) ==
    IF n < 10 THEN <<Digits[n + 1]>>
    ELSE NatChars(n \div 10) \o <<Digits[(n % 10) + 1]>>

IntChars(n) == IF n < 0 THEN <<"-">> \o NatChars(-n) ELSE NatChars(n)

\* The escape of one character (encode_basestring_ascii).
EncodeChar(c) ==
    IF c = "\"" THEN <<"\\", "\"">>
    ELSE IF c = "\\" THEN <<"\\", "\\">>
    ELSE IF c = "\n" THEN <<"\\", "n">>
    ELSE IF c = "\t" THEN <<"\\", "t">>
    ELSE IF c = "U+00E9" THEN <<"\\", "u", "0", "0", "e", "9">>
    ELSE <<c>>

RECURSIVE EncodeChars(_)
EncodeChars(s) ==
    IF s = <<>> THEN <<>> ELSE EncodeChar(Head(s)) \o EncodeChars(Tail(s))

EncodeString(s) == <<"\"">> \o EncodeChars(s) \o <<"\"">>

RECURSIVE json_dumps(_), DumpItems(_, _), DumpPairs(_, _)
\* The elements of a list from index i on, ", " between them.
DumpItems(s, i) ==
    IF i > Len(s) THEN <<>>
    ELSE (IF i > 1 THEN <<",", " ">> ELSE <<>>)
         \o json_dumps(s[i]) \o DumpItems(s, i + 1)
\* The "key": value pairs of a dict from index i on.
DumpPairs(kv, i) ==
    IF i > Len(kv) THEN <<>>
    ELSE (IF i > 1 THEN <<",", " ">> ELSE <<>>)
         \o EncodeString(kv[i][1]) \o <<":", " ">> \o json_dumps(kv[i][2])
         \o DumpPairs(kv, i + 1)
json_dumps(val) ==
    IF val.t = "none" THEN <<"n", "u", "l", "l">>
    ELSE IF val.t = "bool"
    THEN (IF val.v THEN <<"t", "r", "u", "e">> ELSE <<"f", "a", "l", "s", "e">>)
    ELSE IF val.t = "int" THEN IntChars(val.v)
    ELSE IF val.t = "str" THEN EncodeString(val.v)
    ELSE IF val.t = "list" THEN <<"[">> \o DumpItems(val.v, 1) \o <<"]">>
    ELSE <<"{">> \o DumpPairs(val.v, 1) \o <<"}">>

(***************************************************************************)
(* json.load: the decoder.  A scan returns [ok, val, pos]: whether a value *)
(* was read, the value, and the index after it; ok = FALSE is the          *)
(* JSONDecodeError.                                                        *)
(***************************************************************************)
Whitespace == {" ", "\t", "\n", "\r"}
ScanFail == [ok |-> FALSE, val |-> PyNone, pos |-> 0]
ScanOk(val, pos) == [ok |-> TRUE, val |-> val, pos |-> pos]

RECURSIVE SkipWs(_, _)
SkipWs(s, i) ==
    IF i <= Len(s) /\ s[i] \in Whitespace THEN SkipWs(s, i + 1) ELSE i

\* s[i .. i + Len(lit) - 1] = lit
Matches(s, i, lit) ==
    /\ i + Len(lit) - 1 <= Len(s)
    /\ \A k \in 1..Len(lit) : s[i + k - 1] = lit[k]

HexDigits == DigitSet \cup {"a", "b", "c", "d", "e", "f", "A", "B", "C", "D", "E", "F"}
\* The character of a \uXXXX escape; a code point other than the model's
\* own characters is the atom "U+????".
CodePoint(hex) ==
    IF hex \in {<<"0", "0", "e", "9">>, <<"0", "0", "E", "9">>} THEN "U+00E9"
    ELSE IF hex = <<"0", "0", "6", "1">> THEN "a"
    ELSE "U+????"

\* The character of a backslash escape other than \u.
SimpleEscapes == {"\"", "\\", "/", "b", "f", "n", "r", "t"}
Unescape(c) ==
    IF c = "n" THEN "\n"
    ELSE IF c = "t" THEN "\t"
    ELSE IF c = "r" THEN "\r"
    ELSE IF c = "b" THEN "U+0008"
    ELSE IF c = "f" THEN "U+000C"
    ELSE c
ControlChars == {"\n", "\t", "\r", "U+0008", "U+000C"}

\* py_scanstring (strict): i is the index after the opening quote.
RECURSIVE ScanString(_, _, _)
ScanString(s, i, acc) ==
    IF i > Len(s) THEN ScanFail
    ELSE IF s[i] = "\"" THEN ScanOk(PyStr(acc), i + 1)
    ELSE IF s[i] = "\\"
    THEN IF i + 1 > Len(s) THEN ScanFail
         ELSE IF s[i + 1] \in SimpleEscapes
         THEN ScanString(s, i + 2, Append(acc, Unescape(s[i + 1])))
         ELSE IF /\ s[i + 1] = "u"
                 /\ i + 5 <= Len(s)
                 /\ \A k \in 2..5 : s[i + k] \in HexDigits
         THEN ScanString(s, i + 6, Append(acc, CodePoint(SubSeq(s, i + 2, i + 5))))
         ELSE ScanFail
    ELSE IF s[i] \in ControlChars THEN ScanFail
    ELSE ScanString(s, i + 1, Append(acc, s[i]))

\* The digits of [1-9]\d* from index i on, n being the number read so far.
RECURSIVE ScanDigits(_, _, _)
ScanDigits(s, i, n) ==
    IF i <= Len(s) /\ s[i] \in DigitSet
    THEN ScanDigits(s, i + 1, 10 * n + DigitValue(s[i]))
    ELSE [n |-> n, pos |-> i]

\* NUMBER_RE's integer part: -?(0|[1-9]\d*)
ScanNumber(s, i) ==
    LET neg == s[i] = "-"
        j == IF neg THEN i + 1 ELSE i
    IN  IF j > Len(s) \/ s[j] \notin DigitSet THEN ScanFail
        ELSE IF s[j] = "0" THEN ScanOk(PyInt(0), j + 1)
        ELSE LET r == ScanDigits(s, j, 0)
             IN  ScanOk(PyInt(IF neg THEN -r.n ELSE r.n), r.pos)

RECURSIVE ParseValue(_, _), ArrayItems(_, _, _), ObjectItems(_, _, _)
\* JSONArray's loop: i is the index of the next element.
ArrayItems(s, i, acc) ==
    LET r == ParseValue(s, i)
        j == SkipWs(s, r.pos)
    IN  IF ~r.ok THEN ScanFail
        ELSE IF j > Len(s) THEN ScanFail
        ELSE IF s[j] = "]" THEN ScanOk(PyList(Append(acc, r.val)), j + 1)
        ELSE IF s[j] # "," THEN ScanFail
        ELSE ArrayItems(s, SkipWs(s, j + 1), Append(acc, r.val))

\* JSONObject's loop: i is the index after the opening quote of the next
\* key; a repeated key keeps its first place and takes the last value.
ObjectItems(s, i, acc) ==
    LET k == ScanString(s, i, <<>>)
        j == SkipWs(s, k.pos)
        r == ParseValue(s, SkipWs(s, j + 1))
        m == SkipWs(s, r.pos)
        n == SkipWs(s, m + 1)
    IN  IF ~k.ok THEN ScanFail
        ELSE IF j > Len(s) \/ s[j] # ":" THEN ScanFail
        ELSE IF ~r.ok THEN ScanFail
        ELSE IF m > Len(s) THEN ScanFail
        ELSE IF s[m] = "}" THEN ScanOk(DictSet(acc, k.val.v, r.val), m + 1)
        ELSE IF s[m] # "," THEN ScanFail
        ELSE IF n > Len(s) \/ s[n] # "\"" THEN ScanFail
        ELSE ObjectItems(s, n + 1, DictSet(acc, k.val.v, r.val))

\* scan_once: the value that starts at index i.
ParseValue(s, i) ==
    IF i > Len(s) THEN ScanFail
    ELSE IF s[i] = "\"" THEN ScanString(s, i + 1, <<>>)
    ELSE IF s[i] = "{"
    THEN LET j == SkipWs(s, i + 1)
         IN  IF j > Len(s) THEN ScanFail
             ELSE IF s[j] = "}" THEN ScanOk(PyDict(<<>>), j + 1)
             ELSE IF s[j] # "\"" THEN ScanFail
             ELSE ObjectItems(s, j + 1, PyDict(<<>>))
    ELSE IF s[i] = "["
    THEN LET j == SkipWs(s, i + 1)
         IN  IF j <= Len(s) /\ s[j] = "]" THEN ScanOk(PyList(<<>>), j + 1)
             ELSE ArrayItems(s, j, <<>>)
    ELSE IF Matches(s, i, <<"n", "u", "l", "l">>) THEN ScanOk(PyNone, i + 4)
    ELSE IF Matches(s, i, <<"t", "r", "u", "e">>) THEN ScanOk(PyBool(TRUE), i + 4)
    ELSE IF Matches(s, i, <<"f", "a", "l", "s", "e">>) THEN ScanOk(PyBool(FALSE), i + 5)
    ELSE IF s[i] \in DigitSet \cup {"-"} THEN ScanNumber(s, i)
    ELSE ScanFail

\* JSONDecoder.decode: one value, whitespace around it, nothing after it.
json_loads(s) ==
    LET r == ParseValue(s, SkipWs(s, 1))
    IN  IF r.ok /\ SkipWs(s, r.pos) = Len(s) + 1 THEN [ok |-> TRUE, val |-> r.val]
        ELSE [ok |-> FALSE, val |-> PyNone]

(***************************************************************************)
(* The backing file: whether it exists and, if so, its text.               *)
(***************************************************************************)
NoFile == [exists |-> FALSE, data |-> <<>>]
FileOf(text) == [exists |-> TRUE, data |-> text]

(***************************************************************************)
(* TodoApp.  A method is an operator of the store it is called on (ts, the *)
(* value of self.tasks, and f, the backing file) and its arguments; it     *)
(* yields the store after the call, the value returned and the exception   *)
(* raised ("none" when the call returns).                                  *)
(***************************************************************************)
Returns(ts, f, ret) == [tasks |-> ts, file |-> f, ret |-> ret, exc |-> "none"]
Raises(ts, f, exc) == [tasks |-> ts, file |-> f, ret |-> PyNone, exc |-> exc]

\* load_tasks: the list read from the file, [] when there is no file or
\* json.load raises JSONDecodeError.
load_tasks(f) ==
    IF f.exists
    THEN LET r == json_loads(f.data)
         IN  IF r.ok THEN r.val ELSE PyList(<<>>)
    ELSE PyList(<<>>)

\* A faulty save_tasks: the file opened with 'a', the text appended.
save_tasks_append(ts, f) == FileOf(f.data \o json_dumps(ts))

\* save_tasks: the file after open(filename, 'w') and json.dump(self.tasks).
save_tasks(ts, f) == FileOf(json_dumps(ts))

\* __init__
TodoApp(f) == Returns(load_tasks(f), f, PyNone)

\* len(v) and iter(v) are defined on these types only.
HasLen(v) == v.t \in {"list", "dict", "str"}
\* What `for task in v` yields: a list's elements, a dict's keys, a str's
\* characters.
Items(v) ==
    IF v.t = "list" THEN v.v
    ELSE IF v.t = "dict" THEN [i \in 1..Len(v.v) |-> PyStr(v.v[i][1])]
    ELSE [i \in 1..Len(v.v) |-> PyStr(<<v.v[i]>>)]

\* The exception task[key] raises: TypeError unless task is a dict, KeyError
\* when the key is missing.
SubscriptError(task, key) ==
    IF task.t # "dict" THEN "TypeError"
    ELSE IF ~DictHas(task, key) THEN "KeyError"
    ELSE "none"

\* The loop `for task in self.tasks: if task['id'] == task_id` from index i
\* on: the index of the first match (at = 0: none), or the exception raised
\* on the way.
RECURSIVE FindTask(_, _, _)
FindTask(items, task_id, i) ==
    IF i > Len(items) THEN [at |-> 0, exc |-> "none"]
    ELSE IF SubscriptError(items[i], KeyId) # "none"
    THEN [at |-> 0, exc |-> SubscriptError(items[i], KeyId)]
    ELSE IF PyEq(DictGet(items[i], KeyId), PyInt(task_id))
    THEN [at |-> i, exc |-> "none"]
    ELSE FindTask(items, task_id, i + 1)

\* The comprehension [task for task in self.tasks if <want> task['completed']]
\* from index i on: the tasks kept, or the exception raised on the way.
RECURSIVE FilterCompleted(_, _, _, _)
FilterCompleted(items, want, i, acc) ==
    IF i > Len(items) THEN [out |-> acc, exc |-> "none"]
    ELSE IF SubscriptError(items[i], KeyCompleted) # "none"
    THEN [out |-> acc, exc |-> SubscriptError(items[i], KeyCompleted)]
    ELSE FilterCompleted(items, want, i + 1,
            IF PyTruthy(DictGet(items[i], KeyCompleted)) = want
            THEN Append(acc, items[i]) ELSE acc)

\* list.remove(x): the list without its first element equal to x.
RECURSIVE ListRemove(_, _)
ListRemove(s, x) ==
    IF s = <<>> THEN <<>>
    ELSE IF PyEq(Head(s), x) THEN Tail(s)
    ELSE <<Head(s)>> \o ListRemove(Tail(s), x)

\* A faulty add_task: the id is the length of the list, without the + 1.
add_task_zero_based(ts, f, description) ==
    IF ~HasLen(ts) THEN Raises(ts, f, "TypeError")
    ELSE IF ts.t # "list" THEN Raises(ts, f, "AttributeError")
    ELSE LET task == TaskDict(Len(ts.v), description, FALSE)
             new == PyList(Append(ts.v, task))
         IN  Returns(new, save_tasks(new, f), PyNone)

\* A faulty add_task: it reads the file again before it appends.
add_task_reloading(ts, f, description) ==
    LET now == load_tasks(f)
    IN  IF ~HasLen(now) THEN Raises(ts, f, "TypeError")
        ELSE IF now.t # "list" THEN Raises(ts, f, "AttributeError")
        ELSE LET task == TaskDict(Len(now.v) + 1, description, FALSE)
                 new == PyList(Append(now.v, task))
             IN  Returns(new, save_tasks(new, f), PyNone)

\* A faulty add_task: the id is one more than the number of open tasks.
add_task_counts_open(ts, f, description) ==
    IF ~HasLen(ts) THEN Raises(ts, f, "TypeError")
    ELSE IF ts.t # "list" THEN Raises(ts, f, "AttributeError")
    ELSE LET open == FilterCompleted(Items(ts), FALSE, 1, <<>>)
             task == TaskDict(Len(open.out) + 1, description, FALSE)
             new == PyList(Append(ts.v, task))
         IN  Returns(new, save_tasks(new, f), PyNone)

add_task(ts, f, description) ==
    IF ~HasLen(ts) THEN Raises(ts, f, "TypeError")
    ELSE IF ts.t # "list" THEN Raises(ts, f, "AttributeError")
    ELSE LET task == TaskDict(Len(ts.v) + 1, description, FALSE)
             new == PyList(Append(ts.v, task))
         IN  Returns(new, save_tasks(new, f), PyNone)

\* A faulty list_tasks: the open tasks only.
list_tasks_open(ts, f) ==
    IF ~HasLen(ts) THEN Raises(ts, f, "TypeError")
    ELSE LET r == FilterCompleted(Items(ts), FALSE, 1, <<>>)
         IN  IF r.exc # "none" THEN Raises(ts, f, r.exc)
             ELSE Returns(ts, f, PyList(r.out))

list_tasks(ts, f) == Returns(ts, f, ts)

\* A faulty mark_complete: no return in the loop, so that every task with
\* the id is marked.
mark_complete_every(ts, f, task_id) ==
    IF ~HasLen(ts) THEN Raises(ts, f, "TypeError")
    ELSE LET r == FindTask(Items(ts), task_id, 1)
             new == PyList([i \in 1..Len(ts.v) |->
                        IF PyEq(DictGet(ts.v[i], KeyId), PyInt(task_id))
                        THEN DictSet(ts.v[i], KeyCompleted, PyBool(TRUE))
                        ELSE ts.v[i]])
         IN  IF r.exc # "none" THEN Raises(ts, f, r.exc)
             ELSE IF r.at = 0 THEN Returns(ts, f, PyBool(FALSE))
             ELSE Returns(new, save_tasks(new, f), PyBool(TRUE))

\* A faulty mark_complete: no `return True`, so that the call falls through
\* to `return False` after it has marked and saved.
mark_complete_no_return(ts, f, task_id) ==
    IF ~HasLen(ts) THEN Raises(ts, f, "TypeError")
    ELSE LET r == FindTask(Items(ts), task_id, 1)
             new == PyList([ts.v EXCEPT ![r.at] =
                               DictSet(@, KeyCompleted, PyBool(TRUE))])
         IN  IF r.exc # "none" THEN Raises(ts, f, r.exc)
             ELSE IF r.at = 0 THEN Returns(ts, f, PyBool(FALSE))
             ELSE Returns(new, save_tasks(new, f), PyBool(FALSE))

\* A faulty mark_complete: task['completed'] = not task['completed'].
mark_complete_toggle(ts, f, task_id) ==
    IF ~HasLen(ts) THEN Raises(ts, f, "TypeError")
    ELSE LET r == FindTask(Items(ts), task_id, 1)
             flag == ~PyTruthy(DictGet(ts.v[r.at], KeyCompleted))
             new == PyList([ts.v EXCEPT ![r.at] =
                               DictSet(@, KeyCompleted, PyBool(flag))])
         IN  IF r.exc # "none" THEN Raises(ts, f, r.exc)
             ELSE IF r.at = 0 THEN Returns(ts, f, PyBool(FALSE))
             ELSE Returns(new, save_tasks(new, f), PyBool(TRUE))

mark_complete(ts, f, task_id) ==
    IF ~HasLen(ts) THEN Raises(ts, f, "TypeError")
    ELSE LET r == FindTask(Items(ts), task_id, 1)
             new == PyList([ts.v EXCEPT ![r.at] =
                               DictSet(@, KeyCompleted, PyBool(TRUE))])
         IN  IF r.exc # "none" THEN Raises(ts, f, r.exc)
             ELSE IF r.at = 0 THEN Returns(ts, f, PyBool(FALSE))
             ELSE Returns(new, save_tasks(new, f), PyBool(TRUE))

\* A faulty delete_task: every task with the id is removed, not the first.
delete_task_all(ts, f, task_id) ==
    IF ~HasLen(ts) THEN Raises(ts, f, "TypeError")
    ELSE LET r == FindTask(Items(ts), task_id, 1)
             new == PyList(SelectSeq(ts.v,
                        LAMBDA task : ~PyEq(DictGet(task, KeyId), PyInt(task_id))))
         IN  IF r.exc # "none" THEN Raises(ts, f, r.exc)
             ELSE IF r.at = 0 THEN Returns(ts, f, PyBool(FALSE))
             ELSE Returns(new, save_tasks(new, f), PyBool(TRUE))

delete_task(ts, f, task_id) ==
    IF ~HasLen(ts) THEN Raises(ts, f, "TypeError")
    ELSE LET r == FindTask(Items(ts), task_id, 1)
             new == PyList(ListRemove(ts.v, ts.v[r.at]))
         IN  IF r.exc # "none" THEN Raises(ts, f, r.exc)
             ELSE IF r.at = 0 THEN Returns(ts, f, PyBool(FALSE))
             ELSE Returns(new, save_tasks(new, f), PyBool(TRUE))

\* A faulty clear_completed: the filter without its `not`.
clear_completed_inverted(ts, f) ==
    IF ~HasLen(ts) THEN Raises(ts, f, "TypeError")
    ELSE LET r == FilterCompleted(Items(ts), TRUE, 1, <<>>)
             new == PyList(r.out)
         IN  IF r.exc # "none" THEN Raises(ts, f, r.exc)
             ELSE Returns(new, save_tasks(new, f), PyNone)

\* A faulty clear_completed: it saves only when it has removed a task.
clear_completed_lazy(ts, f) ==
    IF ~HasLen(ts) THEN Raises(ts, f, "TypeError")
    ELSE LET r == FilterCompleted(Items(ts), FALSE, 1, <<>>)
             new == PyList(r.out)
         IN  IF r.exc # "none" THEN Raises(ts, f, r.exc)
             ELSE IF Len(r.out) = Len(ts.v) THEN Returns(new, f, PyNone)
             ELSE Returns(new, save_tasks(new, f), PyNone)

clear_completed(ts, f) ==
    IF ~HasLen(ts) THEN Raises(ts, f, "TypeError")
    ELSE LET r == FilterCompleted(Items(ts), FALSE, 1, <<>>)
             new == PyList(r.out)
         IN  IF r.exc # "none" THEN Raises(ts, f, r.exc)
             ELSE Returns(new, save_tasks(new, f), PyNone)

KeyTotal == <<"t", "o", "t", "a", "l">>

\* A faulty get_stats: completed counts the tasks that are not completed.
get_stats_open(ts, f) ==
    IF ~HasLen(ts) THEN Raises(ts, f, "TypeError")
    ELSE LET total == Len(ts.v)
             r == FilterCompleted(Items(ts), FALSE, 1, <<>>)
             completed == Len(r.out)
         IN  IF r.exc # "none" THEN Raises(ts, f, r.exc)
             ELSE Returns(ts, f, PyDict(<< <<KeyTotal, PyInt(total)>>,
                                           <<KeyCompleted, PyInt(completed)>> >>))

get_stats(ts, f) ==
    IF ~HasLen(ts) THEN Raises(ts, f, "TypeError")
    ELSE LET total == Len(ts.v)
             r == FilterCompleted(Items(ts), TRUE, 1, <<>>)
             completed == Len(r.out)
         IN  IF r.exc # "none" THEN Raises(ts, f, r.exc)
             ELSE Returns(ts, f, PyDict(<< <<KeyTotal, PyInt(total)>>,
                                           <<KeyCompleted, PyInt(completed)>> >>))

(***************************************************************************)
(* main(): the command loop.                                               *)
(***************************************************************************)
UpperLetters == <<"A", "B", "C", "D", "E", "F", "G", "H", "I", "J", "K", "L", "M",
                  "N", "O", "P", "Q", "R", "S", "T", "U", "V", "W", "X", "Y", "Z">>
LowerLetters == <<"a", "b", "c", "d", "e", "f", "g", "h", "i", "j", "k", "l", "m",
                  "n", "o", "p", "q", "r", "s", "t", "u", "v", "w", "x", "y", "z">>

\* str.lower, character by character.
LowerChar(c) ==
    IF \E i \in 1..26 : UpperLetters[i] = c
    THEN LowerLetters[CHOOSE i \in 1..26 : UpperLetters[i] = c]
    ELSE c
Lower(s) == [i \in 1..Len(s) |-> LowerChar(s[i])]

\* str.strip: the text without its leading and trailing whitespace.
StripChars == Whitespace \cup {"U+000B", "U+000C"}
RECURSIVE LStrip(_), RStrip(_)
LStrip(s) == IF s # <<>> /\ Head(s) \in StripChars THEN LStrip(Tail(s)) ELSE s
RStrip(s) ==
    IF s # <<>> /\ s[Len(s)] \in StripChars
    THEN RStrip(SubSeq(s, 1, Len(s) - 1)) ELSE s
Strip(s) == LStrip(RStrip(s))

StartsWith(s, prefix) == Matches(s, 1, prefix)
\* s[2:]
From2(s) == SubSeq(s, 3, Len(s))

\* The digits of an int literal from index i on: digits, with single
\* underscores between digits.
RECURSIVE IntDigits(_, _, _)
IntDigits(s, i, n) ==
    IF i > Len(s) THEN [ok |-> TRUE, n |-> n]
    ELSE IF s[i] \in DigitSet THEN IntDigits(s, i + 1, 10 * n + DigitValue(s[i]))
    ELSE IF s[i] = "_" /\ i < Len(s) /\ s[i + 1] \in DigitSet THEN IntDigits(s, i + 1, n)
    ELSE [ok |-> FALSE, n |-> 0]

\* A conversion that reads the leading digits as C's atoi does and never
\* raises.
ParseIntLeading(s) ==
    LET body == Strip(s)
    IN  [ok |-> TRUE,
         n |-> IF body # <<>> /\ body[1] \in DigitSet THEN DigitValue(body[1]) ELSE 0]

\* int(s): ok = FALSE is the ValueError.
ParseInt(s) ==
    LET body == Strip(s)
        signed == body # <<>> /\ body[1] \in {"+", "-"}
        digits == IF signed THEN Tail(body) ELSE body
        r == IntDigits(digits, 1, 0)
    IN  IF digits = <<>> \/ digits[1] \notin DigitSet \/ ~r.ok
        THEN [ok |-> FALSE, n |-> 0]
        ELSE [ok |-> TRUE, n |-> IF signed /\ body[1] = "-" THEN -r.n ELSE r.n]

\* str(v) as an f-string formats it, for the values a task's id and
\* description hold (a container's text is outside the model).
Format(v) ==
    IF v.t = "int" THEN IntChars(v.v)
    ELSE IF v.t = "str" THEN v.v
    ELSE IF v.t = "bool" THEN (IF v.v THEN <<"True">> ELSE <<"False">>)
    ELSE IF v.t = "none" THEN <<"None">>
    ELSE <<"U+????">>

\* The lines the `l` command prints for the tasks from index i on, or the
\* exception raised on the way.
RECURSIVE ListLines(_, _, _)
ListLines(items, i, acc) ==
    IF i > Len(items) THEN [out |-> acc, exc |-> "none"]
    ELSE LET task == items[i]
             e1 == SubscriptError(task, KeyCompleted)
             e2 == SubscriptError(task, KeyId)
             e3 == SubscriptError(task, KeyDescription)
             status == IF PyTruthy(DictGet(task, KeyCompleted)) THEN "U+2713" ELSE " "
             line == <<"[", status, "]", " ">> \o Format(DictGet(task, KeyId))
                     \o <<":", " ">> \o Format(DictGet(task, KeyDescription))
         IN  IF e1 # "none" THEN [out |-> acc, exc |-> e1]
             ELSE IF e2 # "none" THEN [out |-> acc, exc |-> e2]
             ELSE IF e3 # "none" THEN [out |-> acc, exc |-> e3]
             ELSE ListLines(items, i + 1, Append(acc, line))

(***************************************************************************)
(* The state.                                                              *)
(***************************************************************************)
VARIABLES
    tasks,   \* self.tasks of the store
    file,    \* the backing file at self.filename
    last,    \* the store method called last: [op, arg, had, ret, exc, by],
             \* had being len(self.tasks) when it was called and by the
             \* store it was called on ("app", or "other")
    pc,      \* the process: "prompt" at input() or between calls,
             \* "exited" after q, "crashed" by an uncaught exception,
             \* "killed" in the middle of a save, "restarted" after that
    typed,   \* main(): the line input() returned last
    out,     \* main(): the lines printed for it
    other,   \* self.tasks of a second store open on the same path
    removed  \* whether a call has removed a task from self.tasks

vars == <<tasks, file, last, pc, typed, out, other, removed>>

\* The second store before it is constructed.
Unbuilt == [t |-> "unbuilt"]

\* The descriptions add_task is called with.
Descriptions == {<<>>, <<"a", "B", "\"", "\\", "U+00E9">>}

\* Task lists an earlier run of the program has saved.
SavedLists ==
    { PyList(<<>>),
      PyList(<<TaskDict(1, <<"a">>, TRUE)>>),
      PyList(<<TaskDict(1, <<"B", "\"">>, FALSE), TaskDict(2, <<>>, FALSE)>>) }

\* Texts json.load raises JSONDecodeError on.
MalformedTexts ==
    { <<>>,
      <<"t", "o", "d", "o">>,
      <<"[", "{", "\"", "i", "d", "\"", ":", " ", "1", ",">> }

\* The backing file at construction: none, one json.load cannot decode, one
\* an earlier run saved, an empty list written by hand.
InitialFiles ==
    {NoFile}
    \cup {FileOf(text) : text \in MalformedTexts}
    \cup {FileOf(json_dumps(ts)) : ts \in SavedLists}
    \cup {FileOf(<<" ", "[", " ", "]", "\n">>)}

\* Texts that are JSON but no list of task records.
ForeignTexts ==
    { <<"{", "}">>,
      <<"5">>,
      <<"n", "u", "l", "l">>,
      <<"[", "1", "]">>,
      <<"[", "{", "\"", "i", "d", "\"", ":", " ", "1", "}", "]">>,
      <<"\"", "a", "\"">> }

AnyFiles == InitialFiles \cup {FileOf(text) : text \in ForeignTexts}

NoCall ==
    [op |-> "none", arg |-> PyNone, had |-> 0, ret |-> PyNone, exc |-> "none",
     by |-> "app"]
CallOf(op, arg, had, r) ==
    [op |-> op, arg |-> arg, had |-> had, ret |-> r.ret, exc |-> r.exc,
     by |-> "app"]

\* len(v), 0 for a value that has none.
Size(v) == IF v.t \in {"list", "dict", "str"} THEN Len(v.v) ELSE 0

\* app = TodoApp(filename) on the file f.
Constructed(f) ==
    LET r == TodoApp(f)
    IN  /\ tasks = r.tasks
        /\ file = r.file
        /\ last = CallOf("__init__", PyNone, 0, r)
        /\ pc = "prompt"
        /\ typed = <<>>
        /\ out = <<>>
        /\ other = Unbuilt
        /\ removed = FALSE

Init == \E f \in InitialFiles : Constructed(f)
InitAnyFile == \E f \in AnyFiles : Constructed(f)
InitEmpty == Constructed(NoFile)

\* The store and the call record after a method call with result r.
Called(op, arg, r) ==
    /\ tasks' = r.tasks
    /\ file' = r.file
    /\ last' = CallOf(op, arg, Size(tasks), r)
    /\ other' = other
    /\ removed' = (removed \/ (op # "__init__" /\ Size(r.tasks) < Size(tasks)))

\* add_task is called while the list holds fewer than max tasks.
Room(max) == tasks.t = "list" => Len(tasks.v) < max

(***************************************************************************)
(* The store's methods called directly, as test_todo_app.py calls them.    *)
(***************************************************************************)
AddTask ==
    \E d \in Descriptions :
        /\ Room(MaxTasks)
        /\ Called("add_task", PyStr(d), add_task(tasks, file, d))
        /\ UNCHANGED <<pc, typed, out>>

ListTasks ==
    /\ Called("list_tasks", PyNone, list_tasks(tasks, file))
    /\ UNCHANGED <<pc, typed, out>>

MarkComplete ==
    \E id \in 1..MaxId :
        /\ Called("mark_complete", PyInt(id), mark_complete(tasks, file, id))
        /\ UNCHANGED <<pc, typed, out>>

DeleteTask ==
    \E id \in 1..MaxId :
        /\ Called("delete_task", PyInt(id), delete_task(tasks, file, id))
        /\ UNCHANGED <<pc, typed, out>>

ClearCompleted ==
    /\ Called("clear_completed", PyNone, clear_completed(tasks, file))
    /\ UNCHANGED <<pc, typed, out>>

GetStats ==
    /\ Called("get_stats", PyNone, get_stats(tasks, file))
    /\ UNCHANGED <<pc, typed, out>>

\* new_app = TodoApp(filename): a new store on the same path takes the
\* place of the old one.
Reopen ==
    /\ Called("__init__", PyNone, TodoApp(file))
    /\ UNCHANGED <<pc, typed, out>>

Next ==
    \/ AddTask
    \/ ListTasks
    \/ MarkComplete
    \/ DeleteTask
    \/ ClearCompleted
    \/ GetStats
    \/ Reopen

Spec == Init /\ [][Next]_vars
SpecAnyFile == InitAnyFile /\ [][Next]_vars
SpecEmpty == InitEmpty /\ [][Next]_vars

\* ---------------------------------------------------------------------
\* Two stores on one path
\* ---------------------------------------------------------------------

\* What the second store adds.
OtherDescriptions == {<<"b">>}

\* A method of the second store has ended as r.
OtherCalled(op, arg, r) ==
    /\ other' = r.tasks
    /\ file' = r.file
    /\ last' = [CallOf(op, arg, Size(other), r) EXCEPT !.by = "other"]
    /\ UNCHANGED <<tasks, pc, typed, out, removed>>

\* new_app = TodoApp(filename), the first store still in use.
OtherBuild ==
    /\ other = Unbuilt
    /\ OtherCalled("__init__", PyNone, TodoApp(file))

OtherAddTask ==
    \E d \in OtherDescriptions :
        /\ other # Unbuilt
        /\ Size(other) < MaxShared
        /\ OtherCalled("add_task", PyStr(d), add_task(other, file, d))

OtherMarkComplete ==
    \E id \in 1..MaxId :
        /\ other # Unbuilt
        /\ OtherCalled("mark_complete", PyInt(id), mark_complete(other, file, id))

OtherDeleteTask ==
    \E id \in 1..MaxId :
        /\ other # Unbuilt
        /\ OtherCalled("delete_task", PyInt(id), delete_task(other, file, id))

OtherClearCompleted ==
    /\ other # Unbuilt
    /\ OtherCalled("clear_completed", PyNone, clear_completed(other, file))

\* The calls on the first store, which is constructed once; it grows to
\* MaxShared tasks.
FirstStoreCall ==
    \/ Size(tasks) < MaxShared /\ AddTask
    \/ ListTasks
    \/ MarkComplete
    \/ DeleteTask
    \/ ClearCompleted
    \/ GetStats

NextTwo ==
    \/ FirstStoreCall
    \/ OtherBuild
    \/ OtherAddTask
    \/ OtherMarkComplete
    \/ OtherDeleteTask
    \/ OtherClearCompleted

SpecTwo == InitEmpty /\ [][NextTwo]_vars

\* ---------------------------------------------------------------------
\* The process stops in the middle of save_tasks
\* ---------------------------------------------------------------------

\* Whether a call that ended as r has called save_tasks.
Saves(op, r) ==
    /\ r.exc = "none"
    /\ \/ op \in {"add_task", "clear_completed"}
       \/ op \in {"mark_complete", "delete_task"} /\ r.ret = PyBool(TRUE)

\* A save that opens the file for update, not for overwrite: what it has not
\* yet written over is still in the file.
InterruptedInPlace(text, f, n) ==
    FileOf(SubSeq(text, 1, n) \o SubSeq(f.data, n + 1, Len(f.data)))

\* The file when save_tasks stops after open(self.filename, 'w') has
\* emptied f and n characters of the text json.dump writes have reached it.
Interrupted(text, f, n) == FileOf(SubSeq(text, 1, n))

\* The process is killed in the save of a call that would have ended as r.
KilledIn(op, arg, r) ==
    /\ pc = "prompt"
    /\ Saves(op, r)
    /\ Len(r.tasks.v) <= MaxKilled
    /\ LET text == json_dumps(r.tasks)
       IN  \E n \in 0..(Len(text) - 1) : file' = Interrupted(text, file, n)
    /\ tasks' = r.tasks
    /\ last' = [CallOf(op, arg, Size(tasks), r) EXCEPT !.exc = "killed"]
    /\ pc' = "killed"
    /\ UNCHANGED <<typed, out, other, removed>>

KilledInSave ==
    \/ \E d \in Descriptions :
           KilledIn("add_task", PyStr(d), add_task(tasks, file, d))
    \/ \E id \in 1..MaxId :
           KilledIn("mark_complete", PyInt(id), mark_complete(tasks, file, id))
    \/ \E id \in 1..MaxId :
           KilledIn("delete_task", PyInt(id), delete_task(tasks, file, id))
    \/ KilledIn("clear_completed", PyNone, clear_completed(tasks, file))

\* The program is started again: TodoApp() on the file the killed process
\* left.
Restart ==
    /\ pc = "killed"
    /\ Called("__init__", PyNone, TodoApp(file))
    /\ pc' = "restarted"
    /\ UNCHANGED <<typed, out>>

NextCrash ==
    \/ pc = "prompt" /\ Next /\ Size(tasks') <= MaxKilled + 1
    \/ KilledInSave
    \/ Restart

SpecCrash == Init /\ [][NextCrash]_vars

(***************************************************************************)
(* The command loop: one action per branch of main()'s if/elif chain, each *)
(* the whole iteration from input() to the last print.                     *)
(***************************************************************************)
\* The lines the user types.
Lines ==
    { <<"h">>,
      <<"a", " ", "x">>,
      <<"a", " ", "B", "u", "y">>,
      <<" ", "A", " ", "b", " ">>,
      <<"a", " ", " ", "x">>,
      <<"l">>,
      <<"c", " ", "1">>,
      <<"C", " ", "2">>,
      <<"c", " ", "x">>,
      <<"c">>,
      <<"d", " ", "1">>,
      <<"d", " ", " ", "2">>,
      <<"d", " ", "1", ".", "0">>,
      <<"x">>,
      <<"s">>,
      <<"q">>,
      <<"z">>,
      <<>> }

\* command = input(...).strip().lower()
Command(line) == Lower(Strip(line))

\* A chain whose else branch leaves the loop.
BranchElseQuits(command) ==
    IF command = <<"h">> THEN "h"
    ELSE IF StartsWith(command, <<"a", " ">>) THEN "a"
    ELSE IF command = <<"l">> THEN "l"
    ELSE IF StartsWith(command, <<"c", " ">>) THEN "c"
    ELSE IF StartsWith(command, <<"d", " ">>) THEN "d"
    ELSE IF command = <<"x">> THEN "x"
    ELSE IF command = <<"s">> THEN "s"
    ELSE "q"

\* The branch of the if/elif chain a command takes.
Branch(command) ==
    IF command = <<"h">> THEN "h"
    ELSE IF StartsWith(command, <<"a", " ">>) THEN "a"
    ELSE IF command = <<"l">> THEN "l"
    ELSE IF StartsWith(command, <<"c", " ">>) THEN "c"
    ELSE IF StartsWith(command, <<"d", " ">>) THEN "d"
    ELSE IF command = <<"x">> THEN "x"
    ELSE IF command = <<"s">> THEN "s"
    ELSE IF command = <<"q">> THEN "q"
    ELSE "else"

\* input() returns line, and the command takes branch b.
Reads(line, b) ==
    /\ pc = "prompt"
    /\ Branch(Command(line)) = b
    /\ typed' = line

\* The loop after a branch that printed `printed`: back at the prompt, or
\* ended by the exception exc, which main() does not catch.
Printed(printed, exc) ==
    /\ out' = printed
    /\ pc' = IF exc = "none" THEN "prompt" ELSE "crashed"

\* A branch that calls no method of the store.
NoStoreCall ==
    /\ tasks' = tasks
    /\ file' = file
    /\ last' = NoCall
    /\ UNCHANGED <<other, removed>>

CmdHelp ==
    \E line \in Lines :
        /\ Reads(line, "h")
        /\ NoStoreCall
        /\ Printed(<< <<"Commands: ...">> >>, "none")

CmdAdd ==
    \E line \in Lines :
        LET description == From2(Command(line))
            r == add_task(tasks, file, description)
        IN  /\ Reads(line, "a")
            /\ Room(MaxTyped)
            /\ Called("add_task", PyStr(description), r)
            /\ Printed(IF r.exc = "none" THEN << <<"Task added">> >> ELSE <<>>, r.exc)

CmdList ==
    \E line \in Lines :
        LET r == list_tasks(tasks, file)
            empty == IF PyTruthy(r.ret) THEN <<>> ELSE << <<"No tasks">> >>
            listed == ListLines(Items(r.ret), 1, empty)
        IN  /\ Reads(line, "l")
            /\ Called("list_tasks", PyNone, r)
            /\ IF HasLen(r.ret) THEN Printed(listed.out, listed.exc)
               ELSE Printed(empty, "TypeError")

CmdComplete ==
    \E line \in Lines :
        LET task_id == ParseInt(From2(Command(line)))
            r == mark_complete(tasks, file, task_id.n)
        IN  /\ Reads(line, "c")
            /\ IF ~task_id.ok
               THEN NoStoreCall /\ Printed(<< <<"Invalid task ID">> >>, "none")
               ELSE /\ Called("mark_complete", PyInt(task_id.n), r)
                    /\ Printed(IF r.exc # "none" THEN <<>>
                               ELSE IF PyTruthy(r.ret)
                               THEN << <<"Task marked as complete">> >>
                               ELSE << <<"Task not found">> >>, r.exc)

CmdDelete ==
    \E line \in Lines :
        LET task_id == ParseInt(From2(Command(line)))
            r == delete_task(tasks, file, task_id.n)
        IN  /\ Reads(line, "d")
            /\ IF ~task_id.ok
               THEN NoStoreCall /\ Printed(<< <<"Invalid task ID">> >>, "none")
               ELSE /\ Called("delete_task", PyInt(task_id.n), r)
                    /\ Printed(IF r.exc # "none" THEN <<>>
                               ELSE IF PyTruthy(r.ret)
                               THEN << <<"Task deleted">> >>
                               ELSE << <<"Task not found">> >>, r.exc)

CmdClear ==
    \E line \in Lines :
        LET r == clear_completed(tasks, file)
        IN  /\ Reads(line, "x")
            /\ Called("clear_completed", PyNone, r)
            /\ Printed(IF r.exc = "none" THEN << <<"Completed tasks cleared">> >>
                       ELSE <<>>, r.exc)

CmdStats ==
    \E line \in Lines :
        LET r == get_stats(tasks, file)
        IN  /\ Reads(line, "s")
            /\ Called("get_stats", PyNone, r)
            /\ Printed(IF r.exc # "none" THEN <<>>
                       ELSE << <<"Total tasks: ">> \o Format(DictGet(r.ret, KeyTotal)),
                               <<"Completed tasks: ">>
                                   \o Format(DictGet(r.ret, KeyCompleted)) >>, r.exc)

CmdQuit ==
    \E line \in Lines :
        /\ Reads(line, "q")
        /\ NoStoreCall
        /\ out' = <<>>
        /\ pc' = "exited"

CmdInvalid ==
    \E line \in Lines :
        /\ Reads(line, "else")
        /\ NoStoreCall
        /\ Printed(<< <<"Invalid command. Type h for help.">> >>, "none")

NextMain ==
    \/ CmdHelp
    \/ CmdAdd
    \/ CmdList
    \/ CmdComplete
    \/ CmdDelete
    \/ CmdClear
    \/ CmdStats
    \/ CmdQuit
    \/ CmdInvalid

SpecMain == Init /\ [][NextMain]_vars

\* ---------------------------------------------------------------------
\* The command loop on a file system that fails a save
\* ---------------------------------------------------------------------

\* The files a save_tasks that raises OSError can leave: f as it was when
\* open() raises, the first part of the text when a write raises.
Leftovers(ts, f) ==
    LET text == json_dumps(ts)
    IN  {f} \cup
        {Interrupted(text, f, n) :
            n \in {k \in 0..MaxWritten : k < Len(text)}}

\* A store whose methods restore the list when the save fails, and raise.
SaveFailedRolledBack(ts, r, left) ==
    [tasks |-> ts, file |-> left, ret |-> PyNone, exc |-> "OSError"]

\* The end of a call on the list ts that would have ended as r, when its
\* save_tasks raises OSError and leaves the file `left`: the method has
\* changed self.tasks before the save and no handler restores it.
SaveFailed(ts, r, left) ==
    [tasks |-> r.tasks, file |-> left, ret |-> PyNone, exc |-> "OSError"]

\* The loop reads a line of branch b, the branch calls a method and the
\* save in it fails.
SaveFails(line, b, op, arg, r) ==
    /\ Reads(line, b)
    /\ Saves(op, r)
    /\ \E left \in Leftovers(r.tasks, file) :
           LET e == SaveFailed(tasks, r, left)
           IN  /\ Called(op, arg, e)
               /\ Printed(<<>>, e.exc)

CmdAddFails ==
    \E line \in Lines :
        LET description == From2(Command(line))
        IN  /\ Room(MaxTyped)
            /\ SaveFails(line, "a", "add_task", PyStr(description),
                         add_task(tasks, file, description))

CmdCompleteFails ==
    \E line \in Lines :
        LET task_id == ParseInt(From2(Command(line)))
        IN  /\ task_id.ok
            /\ SaveFails(line, "c", "mark_complete", PyInt(task_id.n),
                         mark_complete(tasks, file, task_id.n))

CmdDeleteFails ==
    \E line \in Lines :
        LET task_id == ParseInt(From2(Command(line)))
        IN  /\ task_id.ok
            /\ SaveFails(line, "d", "delete_task", PyInt(task_id.n),
                         delete_task(tasks, file, task_id.n))

CmdClearFails ==
    \E line \in Lines :
        SaveFails(line, "x", "clear_completed", PyNone,
                  clear_completed(tasks, file))

NextMainFail ==
    \/ NextMain
    \/ CmdAddFails
    \/ CmdCompleteFails
    \/ CmdDeleteFails
    \/ CmdClearFails

SpecMainFail == Init /\ [][NextMainFail]_vars

(***************************************************************************)
(* Properties.  The tasks of a store built by the program are dicts with   *)
(* the keys id, description and completed.                                 *)
(***************************************************************************)
TaskId(task) == DictGet(task, KeyId).v
TaskDescription(task) == DictGet(task, KeyDescription).v
TaskCompleted(task) == DictGet(task, KeyCompleted).v

\* The positions of list s whose task has this id.
WithId(s, id) == {i \in 1..Len(s) : TaskId(s[i]) = id}
\* The positions of list s whose task is completed.
CompletedIn(s) == {i \in 1..Len(s) : TaskCompleted(s[i])}
\* List s without its element at position k.
Without(s, k) == [i \in 1..(Len(s) - 1) |-> IF i < k THEN s[i] ELSE s[i + 1]]
\* The n-th smallest element of a set of positions.
Nth(S, n) == CHOOSE i \in S : Cardinality({j \in S : j < i}) = n - 1

\* C1: add_task(d) returns with the old list, unchanged and in order,
\* followed by one new task whose description is d, whose completed flag is
\* false and whose id is the old length plus one.
AddTaskAppends ==
    [][last'.op = "add_task" =>
        /\ last'.exc = "none"
        /\ Len(tasks'.v) = Len(tasks.v) + 1
        /\ \A i \in 1..Len(tasks.v) : tasks'.v[i] = tasks.v[i]
        /\ LET new == tasks'.v[Len(tasks'.v)]
           IN  /\ DictGet(new, KeyDescription) = last'.arg
               /\ DictGet(new, KeyCompleted) = PyBool(FALSE)
               /\ DictGet(new, KeyId) = PyInt(Len(tasks.v) + 1)]_vars

\* add_task has appended a third task with a description that needs escapes.
AddTaskAppendsWitness ==
    /\ last.op = "add_task"
    /\ Len(tasks.v) = 3
    /\ Len(last.arg.v) > 1

\* C2: no two tasks of the list have the same id.
IdsUnique ==
    \A i, j \in 1..Len(tasks.v) :
        i # j => TaskId(tasks.v[i]) # TaskId(tasks.v[j])

\* A mutating call has returned: add_task, clear_completed, or a
\* mark_complete or delete_task that found its task.
Mutated ==
    /\ last.exc = "none"
    /\ \/ last.op \in {"add_task", "clear_completed"}
       \/ last.op \in {"mark_complete", "delete_task"} /\ last.ret = PyBool(TRUE)

\* C3: after a mutating call the backing file exists and a store constructed
\* on it loads the in-memory list, task for task and in the same order.
SavedListReloads ==
    Mutated => file.exists /\ TodoApp(file).tasks = tasks

\* mark_complete has saved a list of two tasks or more, one of them with a
\* description that json.dump escapes.
SavedListReloadsWitness ==
    /\ Mutated
    /\ last.op = "mark_complete"
    /\ Len(tasks.v) >= 2
    /\ \E i \in 1..Len(tasks.v) : Len(TaskDescription(tasks.v[i])) > 1

\* C4: mark_complete(id), when a task has the id, returns true and leaves a
\* task with that id completed, every other task and the order unchanged;
\* when no task has the id it returns false and changes neither the list
\* nor the file.
MarkCompleteMarksOne ==
    [][last'.op = "mark_complete" =>
        /\ last'.exc = "none"
        /\ IF WithId(tasks.v, last'.arg.v) # {}
           THEN /\ last'.ret = PyBool(TRUE)
                /\ Len(tasks'.v) = Len(tasks.v)
                /\ \E k \in WithId(tasks.v, last'.arg.v) :
                      /\ TaskCompleted(tasks'.v[k])
                      /\ TaskId(tasks'.v[k]) = TaskId(tasks.v[k])
                      /\ TaskDescription(tasks'.v[k]) = TaskDescription(tasks.v[k])
                      /\ \A i \in 1..Len(tasks.v) : i # k => tasks'.v[i] = tasks.v[i]
           ELSE /\ last'.ret = PyBool(FALSE)
                /\ tasks' = tasks
                /\ file' = file]_vars

\* mark_complete has completed one task of a list that holds an open one too.
MarkCompleteMarksOneWitness ==
    /\ last.op = "mark_complete"
    /\ last.ret = PyBool(TRUE)
    /\ \E i, j \in 1..Len(tasks.v) :
          /\ TaskId(tasks.v[i]) = last.arg.v
          /\ TaskCompleted(tasks.v[i])
          /\ ~TaskCompleted(tasks.v[j])

\* C5: delete_task(id), when a task has the id, returns true and leaves the
\* old list without the first task that has the id; when no task has it,
\* it returns false and leaves the list unchanged.
DeleteTaskRemovesFirst ==
    [][last'.op = "delete_task" =>
        /\ last'.exc = "none"
        /\ IF WithId(tasks.v, last'.arg.v) # {}
           THEN /\ last'.ret = PyBool(TRUE)
                /\ tasks'.v = Without(tasks.v, Nth(WithId(tasks.v, last'.arg.v), 1))
           ELSE /\ last'.ret = PyBool(FALSE)
                /\ tasks' = tasks]_vars

\* delete_task has removed one task of three.
DeleteTaskRemovesFirstWitness ==
    /\ last.op = "delete_task"
    /\ last.ret = PyBool(TRUE)
    /\ last.had = 3
    /\ Len(tasks.v) = 2

\* C6: clear_completed leaves exactly the tasks of the old list that were
\* not completed, in their order and unchanged, so that get_stats then
\* reports completed = 0.
ClearCompletedKeepsOpen ==
    [][last'.op = "clear_completed" =>
        LET open == (1..Len(tasks.v)) \ CompletedIn(tasks.v)
        IN  /\ last'.exc = "none"
            /\ Len(tasks'.v) = Cardinality(open)
            /\ \A n \in 1..Len(tasks'.v) : tasks'.v[n] = tasks.v[Nth(open, n)]
            /\ DictGet(get_stats(tasks', file').ret, KeyCompleted) = PyInt(0)]_vars

\* clear_completed has removed one task of three.
ClearCompletedKeepsOpenWitness ==
    /\ last.op = "clear_completed"
    /\ last.had = 3
    /\ Len(tasks.v) = 2

\* C7: in every state get_stats returns total = the length of the list and
\* completed = the number of tasks whose completed flag is true, and so did
\* the call of get_stats that has just returned.
GetStatsCounts ==
    LET r == get_stats(tasks, file)
    IN  /\ r.exc = "none"
        /\ DictGet(r.ret, KeyTotal) = PyInt(Len(tasks.v))
        /\ DictGet(r.ret, KeyCompleted) = PyInt(Cardinality(CompletedIn(tasks.v)))
        /\ last.op = "get_stats" => last.exc = "none" /\ last.ret = r.ret

\* get_stats has counted a list of three tasks, one of them completed.
GetStatsCountsWitness ==
    /\ last.op = "get_stats"
    /\ Len(tasks.v) = 3
    /\ Cardinality(CompletedIn(tasks.v)) = 1

\* The text is a JSON list of task records.
RECURSIVE AllTaskRecords(_)
AllTaskRecords(s) ==
    \/ s = <<>>
    \/ /\ Head(s).t = "dict"
       /\ Len(Head(s).v) = 3
       /\ DictHas(Head(s), KeyId) /\ DictGet(Head(s), KeyId).t = "int"
       /\ DictHas(Head(s), KeyDescription) /\ DictGet(Head(s), KeyDescription).t = "str"
       /\ DictHas(Head(s), KeyCompleted) /\ DictGet(Head(s), KeyCompleted).t = "bool"
       /\ AllTaskRecords(Tail(s))
HoldsTaskList(text) ==
    LET r == json_loads(text)
    IN  r.ok /\ r.val.t = "list" /\ AllTaskRecords(r.val.v)

\* C8: a store constructed on a file that does not exist, or whose text is
\* not a list of task records, has an empty task list, and no call on a
\* store raises.
BadFileGivesEmptyList ==
    /\ last.exc = "none"
    /\ (last.op = "__init__" /\ (~file.exists \/ ~HoldsTaskList(file.data)))
          => tasks = PyList(<<>>)

\* new continues old: each task of new is a task of old, in the same order,
\* with its id and description, and completed if it was completed in old.
RECURSIVE Continues(_, _)
Continues(new, old) ==
    IF new = <<>> THEN TRUE
    ELSE IF old = <<>> THEN FALSE
    ELSE IF /\ TaskId(Head(new)) = TaskId(Head(old))
            /\ TaskDescription(Head(new)) = TaskDescription(Head(old))
            /\ TaskCompleted(Head(old)) => TaskCompleted(Head(new))
    THEN Continues(Tail(new), Tail(old))
    ELSE Continues(new, Tail(old))

\* C9: every call leaves each task's completed flag unchanged, sets it to
\* true or removes the task: the list after a call, but for the task
\* add_task appends, continues the list before it.
CompletedNeverReset ==
    [][LET kept == IF last'.op = "add_task" THEN Len(tasks'.v) - 1 ELSE Len(tasks'.v)
       IN  Continues(SubSeq(tasks'.v, 1, kept), tasks.v)]_vars

\* mark_complete has completed a task of a list in which another task was
\* completed before the call and an open one remains.
CompletedNeverResetWitness ==
    /\ last.op = "mark_complete"
    /\ last.ret = PyBool(TRUE)
    /\ Len(tasks.v) = 3
    /\ Cardinality(CompletedIn(tasks.v)) = 2

\* C10: after the command `a <text>` the description of the task added is
\* the text typed after the first two characters of the trimmed line.
AddCommandKeepsText ==
    (last.op = "add_task" /\ last.exc = "none") =>
        TaskDescription(tasks.v[Len(tasks.v)]) = From2(Strip(typed))

\* A command `c <arg>` or `d <arg>` whose argument holds a character that no
\* int literal holds.
TypesBadId(line) ==
    LET command == Command(line)
    IN  /\ Len(command) > 2
        /\ command[1] \in {"c", "d"}
        /\ command[2] = " "
        /\ \E i \in 3..Len(command) :
               command[i] \notin DigitSet \cup StripChars \cup {"+", "-", "_"}

\* C11: a `c <arg>` or `d <arg>` line whose argument is not an integer
\* prints 'Invalid task ID', calls no method of the store, leaves the task
\* list and the file as they were, and the loop prompts again.
InvalidIdCallsNothing ==
    [][TypesBadId(typed') =>
          /\ out' = << <<"Invalid task ID">> >>
          /\ last' = NoCall
          /\ tasks' = tasks
          /\ file' = file
          /\ pc' = "prompt"]_vars

\* `d 1.0` was typed with a task of id 1 in the list, and the list is whole.
InvalidIdCallsNothingWitness ==
    /\ typed = <<"d", " ", "1", ".", "0">>
    /\ out = << <<"Invalid task ID">> >>
    /\ Len(tasks.v) = 2
    /\ WithId(tasks.v, 1) # {}
    /\ pc = "prompt"

\* C12: the loop ends on the command q and on no other: every other line
\* prints something and leaves the loop at the prompt, and q ends the loop
\* without a call to the store, the list and the file as they were; a loop
\* that has ended reads no further line.
QuitOnlyEndsLoop ==
    [][/\ pc = "prompt"
       /\ IF Command(typed') = <<"q">>
          THEN /\ pc' = "exited"
               /\ last' = NoCall
               /\ tasks' = tasks
               /\ file' = file
          ELSE /\ pc' = "prompt"
               /\ out' # <<>>]_vars

\* q was typed after commands that added, completed and deleted tasks.
QuitOnlyEndsLoopWitness ==
    /\ pc = "exited"
    /\ typed = <<"q">>
    /\ removed
    /\ Len(tasks.v) = 1
    /\ CompletedIn(tasks.v) # {}

\* C13: list_tasks and get_stats leave the list and the file as they are,
\* and list_tasks returns the whole list, every task of it in list order.
ReadsChangeNothing ==
    [][last'.op \in {"list_tasks", "get_stats"} =>
          /\ last'.exc = "none"
          /\ tasks' = tasks
          /\ file' = file
          /\ last'.op = "list_tasks" =>
                 /\ Len(last'.ret.v) = Len(tasks.v)
                 /\ \A i \in 1..Len(tasks.v) : last'.ret.v[i] = tasks.v[i]]_vars

\* list_tasks has returned three tasks, completed and open ones, after a
\* task was removed.
ReadsChangeNothingWitness ==
    /\ last.op = "list_tasks"
    /\ Len(last.ret.v) = 3
    /\ Cardinality(CompletedIn(tasks.v)) = 1
    /\ removed

\* The file holds the JSON text of this list.
FileHolds(f, ts) ==
    /\ f.exists
    /\ json_loads(f.data) = [ok |-> TRUE, val |-> ts]

\* C14: a mark_complete or delete_task that finds no task with the id
\* leaves the file as it was, missing or undecodable included, and the list
\* too; every clear_completed leaves the file holding the list it leaves in
\* memory, whether or not it removed a task.
WritesOnlyOnChange ==
    [][/\ (last'.op \in {"mark_complete", "delete_task"}
            /\ last'.ret = PyBool(FALSE)) =>
              file' = file /\ tasks' = tasks
       /\ last'.op = "clear_completed" => FileHolds(file', tasks')]_vars

\* clear_completed was called on two open tasks, removed none, and the file
\* exists.
WritesOnlyOnChangeWitness ==
    /\ last.op = "clear_completed"
    /\ last.had = 2
    /\ Len(tasks.v) = 2
    /\ file.exists

\* A not-found mark_complete has left a file that is missing or that no
\* list can be read from.
WritesOnlyOnChangeUntouched ==
    /\ last.op = "mark_complete"
    /\ last.ret = PyBool(FALSE)
    /\ ~FileHolds(file, tasks)

\* C15: when two or more tasks have the id, mark_complete(id) sets the
\* completed flag of the first of them in list order and delete_task(id)
\* removes the first of them; every other task, the later ones with the same
\* id included, is in the list after the call as it was before.
FirstOfTiesOnly ==
    [][(/\ last'.op \in {"mark_complete", "delete_task"}
        /\ Cardinality(WithId(tasks.v, last'.arg.v)) >= 2) =>
          LET first == Nth(WithId(tasks.v, last'.arg.v), 1)
          IN  /\ last'.ret = PyBool(TRUE)
              /\ IF last'.op = "mark_complete"
                 THEN /\ Len(tasks'.v) = Len(tasks.v)
                      /\ TaskCompleted(tasks'.v[first])
                      /\ TaskId(tasks'.v[first]) = TaskId(tasks.v[first])
                      /\ TaskDescription(tasks'.v[first]) =
                             TaskDescription(tasks.v[first])
                      /\ \A k \in 1..Len(tasks.v) :
                             k # first => tasks'.v[k] = tasks.v[k]
                 ELSE /\ Len(tasks'.v) = Len(tasks.v) - 1
                      /\ \A k \in 1..Len(tasks.v) :
                             /\ k < first => tasks'.v[k] = tasks.v[k]
                             /\ k > first => tasks'.v[k - 1] = tasks.v[k]]_vars

\* mark_complete has marked the first of two tasks with the id it was given
\* and the second of them is open.
FirstOfTiesOnlyWitness ==
    /\ last.op = "mark_complete"
    /\ last.ret = PyBool(TRUE)
    /\ LET ties == WithId(tasks.v, last.arg.v)
       IN  /\ Cardinality(ties) >= 2
           /\ TaskCompleted(tasks.v[Nth(ties, 1)])
           /\ ~TaskCompleted(tasks.v[Nth(ties, 2)])

\* C16: when the process stops in a save, after the file was opened for
\* overwrite and before the whole text is written, the file exists and no
\* list can be decoded from it, neither the list before the call nor the
\* list after it; a store constructed on it afterwards has the empty list.
HalfSavedLoadsEmpty ==
    /\ pc = "killed" =>
          /\ file.exists
          /\ ~json_loads(file.data).ok
          /\ load_tasks(file) = PyList(<<>>)
    /\ pc = "restarted" =>
          /\ file.exists
          /\ tasks = PyList(<<>>)

\* The program was restarted on a file that holds the first part of a task,
\* and its list is empty.
HalfSavedLoadsEmptyWitness ==
    /\ pc = "restarted"
    /\ last.op = "__init__"
    /\ tasks = PyList(<<>>)
    /\ Len(file.data) > 20

IdsCountUpUntilRemoval ==
    ~removed =>
        /\ \A i \in 1..Len(tasks.v) : DictGet(tasks.v[i], KeyId) = PyInt(i)
        /\ IdsUnique

\* Two tasks were added, one is completed, and a delete_task has found no
\* task.
IdsCountUpUntilRemovalWitness ==
    /\ ~removed
    /\ Len(tasks.v) = 2
    /\ CompletedIn(tasks.v) # {}
    /\ last.op = "delete_task"
    /\ last.ret = PyBool(FALSE)

\* The call recorded in `l` has saved: add_task, clear_completed, or a
\* mark_complete or delete_task that found its task.
HasSaved(l) ==
    /\ l.exc = "none"
    /\ \/ l.op \in {"add_task", "clear_completed"}
       \/ l.op \in {"mark_complete", "delete_task"} /\ l.ret = PyBool(TRUE)

\* The tasks of list s that the second store added.
AddedByOther(s) ==
    {i \in 1..Len(s) : TaskDescription(s[i]) \in OtherDescriptions}

\* C19: with two stores on one path, a store's list changes only by its own
\* calls (the file is read at construction only), and after a call of a
\* store that saves the file holds that store's list exactly: after the
\* first store's save no task that the second store added and saved is in
\* the file, and the second store's list is as it was.
LastSaveWins ==
    [][/\ last'.by = "app" =>
             /\ other' = other
             /\ HasSaved(last') =>
                    /\ FileHolds(file', tasks')
                    /\ AddedByOther(json_loads(file'.data).val.v) = {}
       /\ last'.by = "other" =>
             /\ tasks' = tasks
             /\ HasSaved(last') => FileHolds(file', other')]_vars

\* The second store holds a task it has added and saved, the first store
\* has saved after it, and the file holds the first store's list only.
LastSaveWinsWitness ==
    /\ last.by = "app"
    /\ last.op = "add_task"
    /\ other # Unbuilt
    /\ AddedByOther(other.v) # {}
    /\ Len(tasks.v) = 1
    /\ FileHolds(file, tasks)

====
